---- MODULE Spec2Model ----
(***************************************************************************)
(* Model of the population sampling core of egg/zoo/pop/archs.py:          *)
(* AgentSampler (pools, lock indices, pairing universe, evaluation         *)
(* cursor), Game (one sampled triple played on one batch), PopulationGame  *)
(* (sampler + game + auxiliary loss) and the train/eval contract of the    *)
(* agents.  Indices are 0-based as in the source; TLA+ sequences are       *)
(* 1-based, so element i of a Python list is element i+1 of its sequence.  *)
(* Tensors of reals are modelled by integers; a mean is rounded down.      *)
(***************************************************************************)
EXTENDS Integers, Sequences, FiniteSets, TLC

\* ---- bounds of the model ------------------------------------------------
MaxSenders == 3
MaxReceivers == 2
MaxLosses == 1

VARIABLES
    senders,            \* self.senders: sequence of sender identities
    receivers,          \* self.receivers
    losses,             \* self.losses
    sender_lock_idx,
    receiver_lock_idx,
    senders_order,      \* attribute created by add_senders only
    receivers_order,    \* attribute created by add_receivers only
    iterator,           \* self.iterator: the items it yields and how many were consumed
    available_indexes,  \* self.available_indexes: list of (sender, receiver, loss) indices
    training,           \* nn.Module.training
    ret,                \* outcome of the most recent call
    evalLog,            \* index triples returned in evaluation mode since the cursor was last reset
    frozenSinceReset    \* avoid_training_old has been called since the universe was last computed

\* Game
VARIABLES
    game_training,      \* nn.Module.training of the Game
    noisy,              \* self.noisy: None (FALSE) or a noise configuration (TRUE)
    sender_entropy_coeff,
    baseline,           \* self.baseline: its kind and the state of the baseline object
    game_ret            \* outcome of the most recent Game.forward, with the call's inputs

\* PopulationGame
VARIABLES
    aux_loss,           \* name of the auxiliary-loss variant bound to self.aux_loss, "None" without one
    aux_loss_weight,
    best_sender_idx,    \* attribute of the variants best and best_averaged
    best_loss,          \* attribute of the variants best and best_averaged
    n_elemets,          \* attribute of the variant best_averaged
    device,             \* self.device
    force_gpu_use,
    on_device,          \* the agents whose parameters are on the accelerator
    pop_ret,            \* outcome of the most recent PopulationGame call
    calls,              \* (sender index, loss) of every update best_similarity_loss or
                        \* averaged_similarity_loss made, in order
    caller_keeps_aux    \* the caller may pass the aux dict of a call to the next call

\* Sender and Receiver agents
VARIABLES
    built_agents,       \* the agents constructed so far: class, nn.Module.training of the
                        \* agent, of its other children and of its vision module
    agent_ret           \* outcome of the most recent constructor or train call

\* ProximitySampler
VARIABLES
    cos_sim_matrix,     \* self.cos_sim_matrix: list of rows
    batch_size,         \* self.batch_size
    prox_ret            \* outcome of the most recent ProximitySampler call

samplerVars == << senders, receivers, losses, sender_lock_idx, receiver_lock_idx,
                  senders_order, receivers_order, iterator, available_indexes,
                  training, ret, evalLog, frozenSinceReset >>

gameVars == << game_training, noisy, sender_entropy_coeff, baseline, game_ret >>

popVars == << aux_loss, aux_loss_weight, best_sender_idx, best_loss, n_elemets,
              device, force_gpu_use, on_device, pop_ret, calls, caller_keeps_aux >>

agentVars == << built_agents, agent_ret >>

proxVars == << cos_sim_matrix, batch_size, prox_ret >>

vars == << samplerVars, gameVars, popVars, agentVars, proxVars >>

\* ---- Python helpers -----------------------------------------------------

\* list(range(a, b))
Range(a, b) == [i \in 1..(b - a) |-> a + i - 1]

\* itertools.product(A, B, C): lexicographic order, last factor fastest
Product3(A, B, C) ==
    [k \in 1..(Len(A) * Len(B) * Len(C)) |->
        << A[((k - 1) \div (Len(B) * Len(C))) + 1],
           B[(((k - 1) \div Len(C)) % Len(B)) + 1],
           C[((k - 1) % Len(C)) + 1] >>]

\* itertools.chain(a, b)
Chain(a, b) == a \o b

\* a fresh Python iterator over the items of s
Iter(s) == [seq |-> s, pos |-> 0]

\* next(it) raises StopIteration
Exhausted(it) == it.pos >= Len(it.seq)

\* the value next(it) yields, and the iterator afterwards
NextItem(it) == it.seq[it.pos + 1]
Advance(it) == [it EXCEPT !.pos = it.pos + 1]

\* identities of k agents appended to a pool that already holds n
NewAgents(n, k) == [i \in 1..k |-> n + i]

\* an attribute that does not exist yet / that holds a list
NoAttr == [defined |-> FALSE, val |-> << >>]
Attr(v) == [defined |-> TRUE, val |-> v]

\* outcomes of a call
Void(op) == [op |-> op, status |-> "none", agents |-> << >>, idxs |-> << >>]
Raised(op) == [op |-> op, status |-> "error", agents |-> << >>, idxs |-> << >>]
Returned(op, agents, idxs) == [op |-> op, status |-> "ok", agents |-> agents, idxs |-> idxs]

\* ---- AgentSampler -------------------------------------------------------

\* variant of reset_order: the "old method" that pairs everyone with everyone
reset_order_everyone(snd, rcv, lss, slock, rlock) ==
    Product3(Range(0, Len(snd)), Range(0, Len(rcv)), Range(0, Len(lss)))

\* AgentSampler.reset_order on pools snd, rcv, lss and lock indices slock, rlock
reset_order(snd, rcv, lss, slock, rlock) ==
    Chain(Product3(Range(0, Len(snd)), Range(rlock, Len(rcv)), Range(0, Len(lss))),
          Product3(Range(slock, Len(snd)), Range(0, rlock), Range(0, Len(lss))))

\* AgentSampler.__init__ on pools of ns senders, nr receivers and nl losses
AgentSampler_init(ns, nr, nl) ==
        /\ senders = NewAgents(0, ns)
        /\ receivers = NewAgents(0, nr)
        /\ losses = NewAgents(0, nl)
        /\ sender_lock_idx = 0
        /\ receiver_lock_idx = 0
        /\ senders_order = NoAttr
        /\ receivers_order = NoAttr
        /\ iterator = Iter(reset_order(senders, receivers, losses, 0, 0))
        /\ available_indexes = reset_order(senders, receivers, losses, 0, 0)
        /\ training = TRUE
        /\ ret = Void("init")
        /\ evalLog = << >>
        /\ frozenSinceReset = FALSE

\* variant of avoid_training_old: the two pool sizes swapped
avoid_training_old_swapped ==
    /\ sender_lock_idx' = Len(receivers)
    /\ receiver_lock_idx' = Len(senders)
    /\ ret' = Void("avoid_training_old")
    /\ frozenSinceReset' = TRUE
    /\ UNCHANGED << senders, receivers, losses, senders_order, receivers_order,
                    iterator, available_indexes, training, evalLog >>

\* variant of avoid_training_old: it also recomputes the universe and the iterator
avoid_training_old_recompute ==
    /\ sender_lock_idx' = Len(senders)
    /\ receiver_lock_idx' = Len(receivers)
    /\ iterator' = Iter(reset_order(senders, receivers, losses,
                                    Len(senders), Len(receivers)))
    /\ available_indexes' = reset_order(senders, receivers, losses,
                                        Len(senders), Len(receivers))
    /\ ret' = Void("avoid_training_old")
    /\ frozenSinceReset' = TRUE
    /\ UNCHANGED << senders, receivers, losses, senders_order, receivers_order,
                    training, evalLog >>

\* AgentSampler.avoid_training_old
avoid_training_old ==
    /\ sender_lock_idx' = Len(senders)
    /\ receiver_lock_idx' = Len(receivers)
    /\ ret' = Void("avoid_training_old")
    /\ frozenSinceReset' = TRUE
    /\ UNCHANGED << senders, receivers, losses, senders_order, receivers_order,
                    iterator, available_indexes, training, evalLog >>

\* variant of add_senders: the universe is recomputed before the pool is extended
add_senders_stale ==
    \E k \in 0..(MaxSenders - Len(senders)) :
        /\ senders' = senders \o NewAgents(Len(senders), k)
        /\ senders_order' = Attr(Range(0, Len(senders')))
        /\ iterator' = Iter(reset_order(senders, receivers, losses,
                                        sender_lock_idx, receiver_lock_idx))
        /\ available_indexes' = reset_order(senders, receivers, losses,
                                            sender_lock_idx, receiver_lock_idx)
        /\ ret' = Void("add_senders")
        /\ evalLog' = << >>
        /\ frozenSinceReset' = FALSE
        /\ UNCHANGED << receivers, losses, sender_lock_idx, receiver_lock_idx,
                        receivers_order, training >>

\* variant of add_senders: the senders registered before become old
add_senders_relock ==
    \E k \in 0..(MaxSenders - Len(senders)) :
        /\ senders' = senders \o NewAgents(Len(senders), k)
        /\ sender_lock_idx' = Len(senders)
        /\ senders_order' = Attr(Range(0, Len(senders')))
        /\ iterator' = Iter(reset_order(senders', receivers, losses,
                                        sender_lock_idx', receiver_lock_idx))
        /\ available_indexes' = reset_order(senders', receivers, losses,
                                            sender_lock_idx', receiver_lock_idx)
        /\ ret' = Void("add_senders")
        /\ evalLog' = << >>
        /\ frozenSinceReset' = FALSE
        /\ UNCHANGED << receivers, losses, receiver_lock_idx, receivers_order, training >>

\* AgentSampler.add_senders(new_senders), new_senders a list of k agents
add_senders ==
    \E k \in 0..(MaxSenders - Len(senders)) :
        /\ senders' = senders \o NewAgents(Len(senders), k)
        /\ senders_order' = Attr(Range(0, Len(senders')))
        /\ iterator' = Iter(reset_order(senders', receivers, losses,
                                        sender_lock_idx, receiver_lock_idx))
        /\ available_indexes' = reset_order(senders', receivers, losses,
                                            sender_lock_idx, receiver_lock_idx)
        /\ ret' = Void("add_senders")
        /\ evalLog' = << >>
        /\ frozenSinceReset' = FALSE
        /\ UNCHANGED << receivers, losses, sender_lock_idx, receiver_lock_idx,
                        receivers_order, training >>

\* variant of add_receivers: available_indexes is recomputed, the iterator is kept
add_receivers_keep_cursor ==
    \E k \in 0..(MaxReceivers - Len(receivers)) :
        /\ receivers' = receivers \o NewAgents(Len(receivers), k)
        /\ receivers_order' = Attr(Range(0, Len(receivers')))
        /\ available_indexes' = reset_order(senders, receivers', losses,
                                            sender_lock_idx, receiver_lock_idx)
        /\ ret' = Void("add_receivers")
        /\ evalLog' = << >>
        /\ frozenSinceReset' = FALSE
        /\ UNCHANGED << senders, losses, sender_lock_idx, receiver_lock_idx,
                        senders_order, iterator, training >>

\* AgentSampler.add_receivers(new_receivers), new_receivers a list of k agents
add_receivers ==
    \E k \in 0..(MaxReceivers - Len(receivers)) :
        /\ receivers' = receivers \o NewAgents(Len(receivers), k)
        /\ receivers_order' = Attr(Range(0, Len(receivers')))
        /\ iterator' = Iter(reset_order(senders, receivers', losses,
                                        sender_lock_idx, receiver_lock_idx))
        /\ available_indexes' = reset_order(senders, receivers', losses,
                                            sender_lock_idx, receiver_lock_idx)
        /\ ret' = Void("add_receivers")
        /\ evalLog' = << >>
        /\ frozenSinceReset' = FALSE
        /\ UNCHANGED << senders, losses, sender_lock_idx, receiver_lock_idx,
                        senders_order, training >>

\* what AgentSampler.forward returns for the index triple t
Selected(t) ==
    Returned("forward",
             << senders[t[1] + 1], receivers[t[2] + 1], losses[t[3] + 1] >>, t)

\* variant of the training branch: np.random.randint(0, len - 1), which never
\* draws the last position
forward_training_short ==
    /\ training
    /\ IF Len(available_indexes) <= 1
       THEN ret' = Raised("forward")
       ELSE \E i \in 1..(Len(available_indexes) - 1) : ret' = Selected(available_indexes[i])
    /\ UNCHANGED << senders, receivers, losses, sender_lock_idx, receiver_lock_idx,
                    senders_order, receivers_order, iterator, available_indexes,
                    training, evalLog, frozenSinceReset >>

\* AgentSampler.forward in training mode: np.random.randint(0, len) raises on an
\* empty list, otherwise every position of available_indexes can be drawn
forward_training ==
    /\ training
    /\ IF available_indexes = << >>
       THEN ret' = Raised("forward")
       ELSE \E i \in 1..Len(available_indexes) : ret' = Selected(available_indexes[i])
    /\ UNCHANGED << senders, receivers, losses, sender_lock_idx, receiver_lock_idx,
                    senders_order, receivers_order, iterator, available_indexes,
                    training, evalLog, frozenSinceReset >>

\* variant of the evaluation branch: StopIteration is not caught
forward_eval_nowrap ==
    /\ ~training
    /\ Len(evalLog) <= Len(available_indexes)
    /\ IF ~Exhausted(iterator)
       THEN /\ iterator' = Advance(iterator)
            /\ ret' = Selected(NextItem(iterator))
            /\ evalLog' = Append(evalLog, NextItem(iterator))
       ELSE /\ iterator' = iterator
            /\ ret' = Raised("forward")
            /\ evalLog' = evalLog
    /\ UNCHANGED << senders, receivers, losses, sender_lock_idx, receiver_lock_idx,
                    senders_order, receivers_order, available_indexes,
                    training, frozenSinceReset >>

\* variant of the evaluation branch: the second StopIteration is swallowed and
\* the call returns nothing
forward_eval_swallow ==
    /\ ~training
    /\ Len(evalLog) <= Len(available_indexes)
    /\ IF ~Exhausted(iterator)
       THEN /\ iterator' = Advance(iterator)
            /\ ret' = Selected(NextItem(iterator))
            /\ evalLog' = Append(evalLog, NextItem(iterator))
       ELSE IF ~Exhausted(Iter(available_indexes))
            THEN /\ iterator' = Advance(Iter(available_indexes))
                 /\ ret' = Selected(NextItem(Iter(available_indexes)))
                 /\ evalLog' = Append(evalLog, NextItem(Iter(available_indexes)))
            ELSE /\ iterator' = Iter(available_indexes)
                 /\ ret' = Void("forward")
                 /\ evalLog' = evalLog
    /\ UNCHANGED << senders, receivers, losses, sender_lock_idx, receiver_lock_idx,
                    senders_order, receivers_order, available_indexes,
                    training, frozenSinceReset >>

\* AgentSampler.forward in evaluation mode: next(self.iterator), and on
\* StopIteration a new iterator over available_indexes whose next() may raise again
forward_eval ==
    /\ ~training
    /\ Len(evalLog) <= Len(available_indexes)   \* the log keeps one sweep and the call after it
    /\ IF ~Exhausted(iterator)
       THEN /\ iterator' = Advance(iterator)
            /\ ret' = Selected(NextItem(iterator))
            /\ evalLog' = Append(evalLog, NextItem(iterator))
       ELSE IF ~Exhausted(Iter(available_indexes))
            THEN /\ iterator' = Advance(Iter(available_indexes))
                 /\ ret' = Selected(NextItem(Iter(available_indexes)))
                 /\ evalLog' = Append(evalLog, NextItem(Iter(available_indexes)))
            ELSE /\ iterator' = Iter(available_indexes)
                 /\ ret' = Raised("forward")
                 /\ evalLog' = evalLog
    /\ UNCHANGED << senders, receivers, losses, sender_lock_idx, receiver_lock_idx,
                    senders_order, receivers_order, available_indexes,
                    training, frozenSinceReset >>

\* AgentSampler.forward
forward == forward_training \/ forward_eval

\* nn.Module.train(mode) / eval() on the sampler: only the flag forward reads
set_mode ==
    \E mode \in BOOLEAN :
        /\ training' = mode
        /\ ret' = Void("set_mode")
        /\ UNCHANGED << senders, receivers, losses, sender_lock_idx, receiver_lock_idx,
                        senders_order, receivers_order, iterator, available_indexes,
                        evalLog, frozenSinceReset >>

\* ---- Game ----------------------------------------------------------------

\* the examples of one batch
Examples == 1..2
\* values a Loss callable returns per example
LossValues == {3, 5}
\* log-probabilities and entropies a policy-gradient Sender returns per example
LogProbValues == {-2, -1}
EntropyValues == {1, 2}
\* messages (one symbol stands for the whole message tensor)
Messages == {0, 1}
\* sender_entropy_coeff values given to the constructor
EntropyCoeffs == {1, 2}
\* updates of a running-mean baseline that are followed
MaxPoints == 2

RECURSIVE Sum(_)
Sum(v) == IF v = << >> THEN 0 ELSE v[1] + Sum(Tail(v))

\* tensor.mean()
Mean(v) == Sum(v) \div Len(v)

\* egg.core.baselines: NoBaseline() / MeanBaseline() right after construction
NewBaseline(kind) == [kind |-> kind, n_points |-> 0, mean_baseline |-> 0]

\* Baseline.predict(loss): 0 for NoBaseline, the running mean for MeanBaseline
Baseline_predict(b, loss) == IF b.kind = "mean" THEN b.mean_baseline ELSE 0

\* Baseline.update(loss): nothing for NoBaseline, one more point in the running
\* mean for MeanBaseline
Baseline_update(b, loss) ==
    IF b.kind = "mean"
    THEN [b EXCEPT !.n_points = b.n_points + 1,
                   !.mean_baseline = b.mean_baseline
                        + ((Mean(loss) - b.mean_baseline) \div (b.n_points + 1))]
    ELSE b

\* add_noise(message, self.noisy): the corruption drawn for this call turns the
\* message into another one (flip = 1) or leaves it (flip = 0)
add_noise(message, flip) == (message + flip) % Cardinality(Messages)

\* what one call draws from its collaborators: the Sender's message (with the
\* policy-gradient side channels when the Game has a baseline), the corruption
\* of the noise channel, the per-example losses, and which collaborator raises
GameInputs ==
    LET side == IF baseline.kind = "none" THEN { << >> }
                ELSE [Examples -> LogProbValues]
        ents == IF baseline.kind = "none" THEN { << >> }
                ELSE [Examples -> EntropyValues]
        flips == IF noisy THEN {0, 1} ELSE {0}
    IN  [message : Messages, log_probs : side, entropy : ents, flip : flips,
         loss : [Examples -> LossValues], fail : {"none"}]
        \cup [message : {0}, log_probs : { << >> }, entropy : { << >> }, flip : {0},
              loss : {[e \in Examples |-> 3]}, fail : {"sender", "receiver", "loss"}]

\* Game.__init__(noisy, sender_entropy_coeff, baseline)
Game_init(kind, noise, coeff) ==
    /\ game_training = TRUE
    /\ noisy = noise
    /\ baseline = NewBaseline(kind)
    /\ sender_entropy_coeff = IF kind = "none" THEN NoAttr ELSE Attr(coeff)
    /\ game_ret = [op |-> "init", status |-> "none"]

\* the message handed to the Receiver and the Loss: line 641
Corrupted(in) == IF noisy THEN add_noise(in.message, in.flip) ELSE in.message

\* variant of ReceiverMessage: the Receiver is handed the message of the Sender
ReceiverMessage_uncorrupted(in) == in.message

\* the message the Receiver is called with: lines 643-647
ReceiverMessage(in) == Corrupted(in)

\* the callables Game.forward invokes, in order, up to the one that raises
Invoked(in) ==
    LET steps == IF noisy THEN << "sender", "noise", "receiver", "loss" >>
                 ELSE << "sender", "receiver", "loss" >>
        last == CHOOSE k \in 1..Len(steps) :
                    steps[k] = IF in.fail = "none" THEN "loss" ELSE in.fail
    IN  SubSeq(steps, 1, last)

\* policy_loss: ((loss.detach() - baseline) * log_probs).mean()
PolicyLoss(loss, log_probs, b) == Mean([e \in Examples |-> (loss[e] - b) * log_probs[e]])

\* variant of OptimizedLoss: the weighted entropy is added
OptimizedLoss_plus(loss, log_probs, entropy, b, coeff) ==
    [e \in Examples |-> PolicyLoss(loss, log_probs, b) + entropy[e] * coeff]

\* optimized_loss: policy_loss - weighted_entropy, per example
OptimizedLoss(loss, log_probs, entropy, b, coeff) ==
    [e \in Examples |-> PolicyLoss(loss, log_probs, b) - entropy[e] * coeff]

\* variant of Game_baseline_after: the baseline is updated before the Loss is
\* known to have returned
Game_baseline_after_failed(mode, in) ==
    IF baseline.kind # "none" /\ in.fail \in {"none", "loss"} /\ mode
    THEN Baseline_update(baseline, in.loss)
    ELSE baseline

\* variant of Game_baseline_after: the baseline is updated in both modes
Game_baseline_after_always(mode, in) == Baseline_update(baseline, in.loss)

\* the baseline object after a call made in mode `mode`: lines 673-674
Game_baseline_after(mode, in) ==
    IF baseline.kind # "none" /\ in.fail = "none" /\ mode
    THEN Baseline_update(baseline, in.loss)
    ELSE baseline

\* variant of Game_baseline_used: predict() is called after update()
Game_baseline_used_late(mode, in) ==
    Baseline_predict(Game_baseline_after(mode, in), in.loss)

\* the estimate subtracted from the loss: line 672, before the update
Game_baseline_used(mode, in) == Baseline_predict(baseline, in.loss)

\* what Game.forward returns (or that it raised) when called in mode `mode`
\* with the draws `in`, together with what its collaborators were handed
Game_result(mode, in) ==
    IF in.fail # "none"
    THEN [op |-> "forward", status |-> "error", raised_by |-> in.fail,
          invoked |-> Invoked(in), mode |-> mode, in |-> in, before |-> baseline]
    ELSE LET message == Corrupted(in)
             policy == baseline.kind # "none"
             optimized ==
                 IF policy
                 THEN OptimizedLoss(in.loss, in.log_probs, in.entropy,
                                    Game_baseline_used(mode, in), sender_entropy_coeff.val)
                 ELSE [e \in Examples |-> 0]
             loss == [e \in Examples |-> in.loss[e] + optimized[e]]
         IN  [op |-> "forward", status |-> "ok",
              mean_loss |-> Mean(loss),
              message |-> message,
              receiver_message |-> ReceiverMessage(in),
              loss_message |-> message,
              invoked |-> Invoked(in),
              optimized_loss |-> optimized,
              strategy |-> IF mode THEN "train" ELSE "test",
              mode |-> mode, in |-> in, before |-> baseline]

\* Game.forward(sender, receiver, loss, sender_input, labels, receiver_input, aux_input)
Game_forward ==
    /\ (game_training /\ baseline.kind = "mean") => baseline.n_points < MaxPoints
    /\ \E in \in GameInputs :
          /\ game_ret' = Game_result(game_training, in)
          /\ baseline' = Game_baseline_after(game_training, in)
    /\ UNCHANGED << game_training, noisy, sender_entropy_coeff >>

\* Game.train(mode) / Game.eval()
Game_set_mode ==
    \E mode \in BOOLEAN :
        /\ game_training' = mode
        /\ game_ret' = [op |-> "set_mode", status |-> "none"]
        /\ UNCHANGED << noisy, sender_entropy_coeff, baseline >>

\* a Game that is never called
GameIdle == Game_init("none", FALSE, 1)

\* a sampler that is never called
SamplerIdle == AgentSampler_init(0, 0, 0)

\* ---- PopulationGame -------------------------------------------------------

\* cap on the recorded calls of the tracking variants
MaxCalls == 3

\* self.chosen_sender_idx of the variant chosen
chosen_sender_idx == 1

\* stand-in for the integer 2**63 - 1 that best_loss starts from: any value
\* above every loss behaves the same
Int63Max == 1000000000

\* Python's None, and a one-element index tensor
None == << >>
IdxTensor(i) == << i >>

\* values of the auxiliary similarity, and what invoking the auxiliary sender
\* can do: return a similarity or raise
AuxValues == {1}
AuxDraws ==
    [value : AuxValues, fail : {FALSE}] \cup {[value |-> 0, fail |-> TRUE]}

\* float tensor elements: finite, infinite or not a number
Fin(v) == [k |-> "fin", v |-> v]
PosInf == [k |-> "inf", v |-> 0]
NegInf == [k |-> "-inf", v |-> 0]
NaN == [k |-> "nan", v |-> 0]

\* x - l for a finite l
XSub(x, l) == IF x.k = "fin" THEN Fin(x.v - l) ELSE x

\* x / n for an integer n: a division by 0 gives an infinity or nan
XDiv(x, n) ==
    IF x.k # "fin" THEN (IF n < 0 /\ x.k = "inf" THEN NegInf
                         ELSE IF n < 0 /\ x.k = "-inf" THEN PosInf ELSE x)
    ELSE IF n # 0 THEN Fin(x.v \div n)
    ELSE IF x.v > 0 THEN PosInf
    ELSE IF x.v < 0 THEN NegInf
    ELSE NaN

\* x + y
XAdd(x, y) ==
    IF x.k = "nan" \/ y.k = "nan" THEN NaN
    ELSE IF x.k = "fin" /\ y.k = "fin" THEN Fin(x.v + y.v)
    ELSE IF x.k = "fin" THEN y
    ELSE IF y.k = "fin" THEN x
    ELSE IF x.k = y.k THEN x
    ELSE NaN

\* x < y; a nan counts as the least value, as it does for torch.argmin
XLess(x, y) ==
    LET rank(z) == CASE z.k = "nan" -> 0 [] z.k = "-inf" -> 1
                     [] z.k = "fin" -> 2 [] z.k = "inf" -> 3
    IN  \/ rank(x) < rank(y)
        \/ x.k = "fin" /\ y.k = "fin" /\ x.v < y.v

\* torch.argmin: the 0-based position of the first minimal element
ArgMin(t) ==
    (CHOOSE i \in 1..Len(t) :
        /\ \A j \in 1..Len(t) : ~XLess(t[j], t[i])
        /\ \A j \in 1..(i - 1) : XLess(t[i], t[j])) - 1

\* PopulationGame.__init__(game, sampler, device, aux_loss, aux_loss_weight)
\* for one of the five variants or none
PopulationGame_init(dev, variant, weight) ==
    /\ device = dev
    /\ force_gpu_use = FALSE
    /\ aux_loss = variant
    /\ aux_loss_weight = IF variant = "None" THEN 0 ELSE weight
    /\ best_sender_idx = IF variant \in {"best", "best_averaged"} THEN Attr(None) ELSE NoAttr
    /\ best_loss = IF variant = "best" THEN Attr(Int63Max)
                   ELSE IF variant = "best_averaged"
                        THEN Attr([i \in 1..Len(senders) |-> Fin(Int63Max)])
                        ELSE NoAttr
    /\ n_elemets = IF variant = "best_averaged"
                   THEN Attr([i \in 1..Len(senders) |-> 0])
                   ELSE NoAttr
    /\ on_device = {}
    /\ pop_ret = [op |-> "init", status |-> "none"]
    /\ calls = << >>

\* PopulationGame.force_set_device(device)
force_set_device ==
    \E dev \in {"cpu", "cuda"} :
        /\ device' = dev
        /\ force_gpu_use' = TRUE
        /\ pop_ret' = [op |-> "force_set_device", status |-> "none"]
        /\ UNCHANGED << aux_loss, aux_loss_weight, best_sender_idx, best_loss,
                        n_elemets, on_device, calls, caller_keeps_aux >>

\* variant of AgentSampler_call: in evaluation mode the item is read and the
\* iterator is left where it was
AgentSampler_call_peek(it) ==
    IF training
    THEN IF available_indexes = << >>
         THEN {[status |-> "error", it |-> it, idxs |-> << >>]}
         ELSE {[status |-> "ok", it |-> it, idxs |-> available_indexes[i]] :
                  i \in 1..Len(available_indexes)}
    ELSE IF ~Exhausted(it)
         THEN {[status |-> "ok", it |-> it, idxs |-> NextItem(it)]}
         ELSE IF ~Exhausted(Iter(available_indexes))
              THEN {[status |-> "ok", it |-> Iter(available_indexes),
                     idxs |-> NextItem(Iter(available_indexes))]}
              ELSE {[status |-> "error", it |-> Iter(available_indexes), idxs |-> << >>]}

\* AgentSampler.forward as PopulationGame calls it, from the iterator `it`: the
\* iterator afterwards and the index triple returned, or that it raised
AgentSampler_call(it) ==
    IF training
    THEN IF available_indexes = << >>
         THEN {[status |-> "error", it |-> it, idxs |-> << >>]}
         ELSE {[status |-> "ok", it |-> it, idxs |-> available_indexes[i]] :
                  i \in 1..Len(available_indexes)}
    ELSE IF ~Exhausted(it)
         THEN {[status |-> "ok", it |-> Advance(it), idxs |-> NextItem(it)]}
         ELSE IF ~Exhausted(Iter(available_indexes))
              THEN {[status |-> "ok", it |-> Advance(Iter(available_indexes)),
                     idxs |-> NextItem(Iter(available_indexes))]}
              ELSE {[status |-> "error", it |-> Iter(available_indexes), idxs |-> << >>]}

\* what an auxiliary-loss method leaves behind up to the point where it invokes
\* the auxiliary sender: whether it got there, the sampler's iterator, what it
\* drew from the sampler (a sequence of at most one outcome), the tracking attributes and the sender it selected
AuxOutcome(status, it, drawn, bl, bs, aux_sender) ==
    [status |-> status, it |-> it, drawn |-> drawn,
     best_loss |-> bl, best_sender_idx |-> bs, aux_sender |-> aux_sender]

\* PopulationGame.random_similarity_loss
random_similarity_loss(it) ==
    {AuxOutcome(d.status, d.it, << d >>, best_loss, best_sender_idx,
                IF d.status = "ok" THEN IdxTensor(d.idxs[1]) ELSE None) :
        d \in AgentSampler_call(it)}

\* PopulationGame.chosen_similarity_loss: senders[1] raises IndexError on a
\* pool of fewer than two senders
chosen_similarity_loss(it) ==
    {AuxOutcome(IF chosen_sender_idx < Len(senders) THEN "ok" ELSE "error",
                it, << >>, best_loss, best_sender_idx,
                IF chosen_sender_idx < Len(senders) THEN IdxTensor(chosen_sender_idx)
                ELSE None)}

\* PopulationGame.random_kl_loss
random_kl_loss(it) ==
    {AuxOutcome(d.status, d.it, << d >>, best_loss, best_sender_idx,
                IF d.status = "ok" THEN IdxTensor(d.idxs[1]) ELSE None) :
        d \in AgentSampler_call(it)}

\* variant of best_similarity_loss: the record is updated in training mode only
best_similarity_loss_training_only(it, sender_idx, loss) ==
    LET better == training /\ loss < best_loss.val
        bl == IF better THEN Attr(loss) ELSE best_loss
        bs == IF better THEN Attr(IdxTensor(sender_idx)) ELSE best_sender_idx
    IN  {AuxOutcome(IF bs.val = None THEN "error" ELSE "ok", it, << >>, bl, bs, bs.val)}

\* variant of best_similarity_loss: the best sender is replaced on an equal loss
best_similarity_loss_ties(it, sender_idx, loss) ==
    LET better == loss <= best_loss.val
        bl == IF better THEN Attr(loss) ELSE best_loss
        bs == IF better THEN Attr(IdxTensor(sender_idx)) ELSE best_sender_idx
    IN  {AuxOutcome(IF bs.val = None THEN "error" ELSE "ok", it, << >>, bl, bs, bs.val)}

\* PopulationGame.best_similarity_loss for the call played by sender_idx with
\* mean loss `loss`
best_similarity_loss(it, sender_idx, loss) ==
    LET better == loss < best_loss.val
        bl == IF better THEN Attr(loss) ELSE best_loss
        bs == IF better THEN Attr(IdxTensor(sender_idx)) ELSE best_sender_idx
    IN  {AuxOutcome(IF bs.val = None THEN "error" ELSE "ok", it, << >>, bl, bs, bs.val)}

\* variant of averaged_similarity_loss: a sender beyond the table gets an entry
averaged_similarity_loss_grown(it, sender_idx, loss) ==
    LET i == sender_idx + 1
        grown == [k \in 1..i |-> IF k <= Len(best_loss.val) THEN best_loss.val[k]
                                 ELSE Fin(Int63Max)]
        table == IF i > Len(best_loss.val) THEN grown ELSE best_loss.val
        bl == [table EXCEPT ![i] = Fin(loss)]
    IN  {AuxOutcome("ok", it, << >>, Attr(bl), best_sender_idx, IdxTensor(ArgMin(bl)))}

\* PopulationGame.averaged_similarity_loss: n_elemets is read, never written
averaged_similarity_loss(it, sender_idx, loss) ==
    LET i == sender_idx + 1
        x == best_loss.val[i]
        bl == [best_loss.val EXCEPT
                  ![i] = XAdd(x, XDiv(XSub(x, loss), n_elemets.val[i]))]
    IN  IF i > Len(best_loss.val)          \* IndexError
        THEN {AuxOutcome("error", it, << >>, best_loss, best_sender_idx, None)}
        ELSE {AuxOutcome("ok", it, << >>, Attr(bl), best_sender_idx,
                         IdxTensor(ArgMin(bl)))}

\* self.aux_loss(message, args[-1], args[0], mean_loss); without a variant the
\* attribute does not exist
aux_loss_call(it, sender_idx, loss) ==
    CASE aux_loss = "random" -> random_similarity_loss(it)
      [] aux_loss = "chosen" -> chosen_similarity_loss(it)
      [] aux_loss = "random_kl" -> random_kl_loss(it)
      [] aux_loss = "best" -> best_similarity_loss(it, sender_idx, loss)
      [] aux_loss = "best_averaged" -> averaged_similarity_loss(it, sender_idx, loss)
      [] OTHER -> {AuxOutcome("error", it, << >>, best_loss, best_sender_idx, None)}

\* the variants that keep a record across calls
Tracking == aux_loss \in {"best", "best_averaged"}

\* variant of aux_path_taken: the weight 0 takes the auxiliary path too
aux_path_taken_on_zero == aux_loss_weight >= 0

\* the guard of the auxiliary path in PopulationGame.forward
aux_path_taken == aux_loss_weight > 0

\* nn.Module.to(self.device) on a set of agents
To(resident, agents) ==
    IF device = "cuda" THEN resident \cup agents ELSE resident \ agents

SenderAt(idx) == << "sender", senders[idx + 1] >>
ReceiverAt(idx) == << "receiver", receivers[idx + 1] >>

\* the batches PopulationGame hands to the Game; it reads only their mean loss,
\* and it does not tell where a failing Game raised: the Loss stands for all
PopGameInputs ==
    {in \in GameInputs :
        /\ in.message = 0 /\ in.loss[1] <= in.loss[2]
        /\ in.fail \in {"none", "loss"}
        /\ in.log_probs \in {<< >>, [e \in Examples |-> -1]}
        /\ in.entropy \in {<< >>, [e \in Examples |-> 1]}}

\* a Python value that is a dict with the entries f, or that is none
Mapping(f) == [mapping |-> TRUE, entries |-> f]
NoMapping == [mapping |-> FALSE, entries |-> << >>]

\* the content of a tensor that was allocated and never written
Uninitialized == << "uninitialized" >>

\* what the caller passes as last positional argument: no dict, or, for a
\* caller that keeps it, the dict the call before left behind
CallerArgs ==
    {NoMapping} \cup (IF /\ caller_keeps_aux /\ pop_ret.op = "forward"
                         /\ pop_ret.aux_after.mapping
                      THEN {pop_ret.aux_after} ELSE {})

\* variant of aux_input_for: the dict of the caller is updated in place
aux_input_for_updated(last, idxs) ==
    LET fresh == [sender_idx |-> IdxTensor(idxs[1]), recv_idx |-> IdxTensor(idxs[2]),
                  loss_idx |-> IdxTensor(idxs[3])]
    IN  Mapping(IF last.mapping THEN fresh @@ last.entries ELSE fresh)

\* args[-1] = {"sender_idx": ..., "recv_idx": ..., "loss_idx": ...}
aux_input_for(last, idxs) ==
    Mapping([sender_idx |-> IdxTensor(idxs[1]), recv_idx |-> IdxTensor(idxs[2]),
             loss_idx |-> IdxTensor(idxs[3])])

\* variant of played_agents: the first agent of every pool plays
played_agents_first(d) == << senders[1], receivers[1], losses[1] >>

\* the sender, receiver and loss handed to self.game: those the sampler returned
played_agents(d) == Selected(d.idxs).agents

\* what PopulationGame.forward leaves behind when the sampler returns d, the
\* caller passed `last` as last positional argument, the Game draws `in` and
\* the auxiliary sender draws ad
forward_outcomes(d, last, in, ad) ==
    LET game == [players |-> played_agents(d)] @@ Game_result(game_training, in)
        aux_input == aux_input_for(last, d.idxs)
        stale == last.mapping /\ "aux_sender_idx" \in DOMAIN last.entries
        played == IF force_gpu_use THEN {SenderAt(d.idxs[1]), ReceiverAt(d.idxs[2])}
                  ELSE {}
        base == [it |-> d.it, sampler_ret |-> Raised("forward"),
                 game_ret |-> game_ret, baseline |-> baseline,
                 best_loss |-> best_loss, best_sender_idx |-> best_sender_idx,
                 on_device |-> on_device, calls |-> calls,
                 pop_ret |-> [op |-> "forward", status |-> "error",
                              raised_by |-> "sampler", sampler_calls |-> 1,
                              idxs |-> << >>, aux_ran |-> FALSE,
                              aux_sender |-> None, moved |-> {},
                              stale |-> stale,
                              aux_input |-> NoMapping, aux_after |-> NoMapping]]
        sampled == [base EXCEPT !.sampler_ret = Selected(d.idxs),
                                !.game_ret = game,
                                !.baseline = Game_baseline_after(game_training, in),
                                !.on_device = To(on_device, played),
                                !.pop_ret.idxs = d.idxs,
                                !.pop_ret.moved = played,
                                !.pop_ret.aux_input = aux_input,
                                !.pop_ret.aux_after = aux_input]
    IN  IF d.status = "error" THEN {base}
        ELSE IF game.status = "error"
        THEN {[sampled EXCEPT !.pop_ret.raised_by = "game"]}
        ELSE IF ~aux_path_taken
        THEN {[sampled EXCEPT !.pop_ret =
                  [@ EXCEPT !.status = "ok"] @@ [mean_loss |-> game.mean_loss]]}
        ELSE {LET aux_moved == IF force_gpu_use /\ a.status = "ok"
                               THEN {SenderAt(a.aux_sender[1])} ELSE {}
                  after == [sampled EXCEPT
                      !.it = a.it,
                      !.sampler_ret = IF a.drawn = << >> THEN @
                                      ELSE IF a.status = "ok"
                                           THEN Selected(a.drawn[1].idxs)
                                           ELSE Raised("forward"),
                      !.best_loss = a.best_loss,
                      !.best_sender_idx = a.best_sender_idx,
                      !.on_device = To(@, aux_moved),
                      !.calls = IF Tracking /\ a.status = "ok"
                                THEN Append(@, [sender |-> d.idxs[1],
                                                loss |-> game.mean_loss])
                                ELSE @,
                      !.pop_ret.raised_by = "aux_loss",
                      !.pop_ret.sampler_calls = 1 + Len(a.drawn),
                      !.pop_ret.aux_ran = TRUE,
                      !.pop_ret.aux_sender = a.aux_sender,
                      !.pop_ret.moved = played \cup aux_moved,
                      !.pop_ret.aux_after =
                          IF a.status = "error" THEN @
                          ELSE Mapping([aux_sender_idx |->
                                           IF aux_loss = "chosen" THEN Uninitialized
                                           ELSE a.aux_sender] @@ @.entries)]
              IN  IF a.status = "error" \/ ad.fail THEN after
                  ELSE [after EXCEPT !.pop_ret =
                           [@ EXCEPT !.status = "ok"] @@
                           [mean_loss |-> game.mean_loss + aux_loss_weight * ad.value]]
              : a \in aux_loss_call(d.it, d.idxs[1], game.mean_loss)}

\* PopulationGame.forward(*args): sample, play the Game, add the auxiliary loss
PopulationGame_forward ==
    /\ (game_training /\ baseline.kind = "mean") => baseline.n_points < MaxPoints
    /\ (Tracking /\ aux_path_taken) => Len(calls) < MaxCalls
    /\ \E d \in AgentSampler_call(iterator), last \in CallerArgs, in \in PopGameInputs,
          ad \in IF aux_path_taken THEN AuxDraws ELSE {[value |-> 0, fail |-> FALSE]} :
          \E o \in forward_outcomes(d, last, in, ad) :
              /\ iterator' = o.it
              /\ ret' = o.sampler_ret
              /\ game_ret' = o.game_ret
              /\ baseline' = o.baseline
              /\ best_loss' = o.best_loss
              /\ best_sender_idx' = o.best_sender_idx
              /\ on_device' = o.on_device
              /\ calls' = o.calls
              /\ pop_ret' = o.pop_ret
    /\ UNCHANGED << senders, receivers, losses, sender_lock_idx, receiver_lock_idx,
                    senders_order, receivers_order, available_indexes, training,
                    evalLog, frozenSinceReset, game_training, noisy,
                    sender_entropy_coeff, aux_loss, aux_loss_weight, n_elemets,
                    device, force_gpu_use, caller_keeps_aux >>

\* PopulationGame.train(mode) / eval(): nn.Module.train sets the flag of the
\* Game and of the sampler it holds
PopulationGame_set_mode ==
    \E mode \in BOOLEAN :
        /\ training' = mode
        /\ game_training' = mode
        /\ ret' = Void("set_mode")
        /\ game_ret' = [op |-> "set_mode", status |-> "none"]
        /\ pop_ret' = [op |-> "set_mode", status |-> "none"]
        /\ UNCHANGED << senders, receivers, losses, sender_lock_idx, receiver_lock_idx,
                        senders_order, receivers_order, iterator, available_indexes,
                        evalLog, frozenSinceReset, noisy, sender_entropy_coeff,
                        baseline, aux_loss, aux_loss_weight, best_sender_idx,
                        best_loss, n_elemets, device, force_gpu_use, on_device, calls,
                        caller_keeps_aux >>

\* a PopulationGame that is never called
PopIdle == PopulationGame_init("cuda", "None", 0) /\ caller_keeps_aux = FALSE

\* the population the PopulationGame is built on
PopSampler == AgentSampler_init(3, 1, 1)

\* ---- Sender and Receiver ------------------------------------------------

\* cap on the number of built_agents constructed
MaxAgents == 2

\* some of the names get_model knows, and one it does not
KnownNames == {"resnet50", "levit"}
Names == KnownNames \cup {"alexnet"}

\* what a constructor can be handed as vision_module: an nn.Module in either
\* mode, a string, or something else
VisionArgs ==
    [type : {"module"}, training : BOOLEAN, name : {""}]
        \cup [type : {"str"}, training : {FALSE}, name : Names]
        \cup [type : {"other"}, training : {FALSE}, name : {""}]

\* what train() can be handed as mode
ModeArgs == [bool : {TRUE}, val : BOOLEAN] \cup {[bool |-> FALSE, val |-> FALSE]}

\* get_model(name, pretrained): a freshly built network is in training mode
get_model(name, pretrained) ==
    IF name \notin KnownNames
    THEN [status |-> "KeyError"]
    ELSE [status |-> "ok", training |-> TRUE]

\* initialize_vision_module(name, pretrained): a tuple of three values; the
\* model is put in evaluation mode only if pretrained
initialize_vision_module(name, pretrained) ==
    LET model == get_model(name, pretrained)
    IN  IF model.status # "ok" THEN model
        ELSE [status |-> "ok", arity |-> 3,
              training |-> IF pretrained THEN FALSE ELSE model.training]

\* variant of init_vision_module: a value that is neither a module nor a
\* string is stored as the vision module
init_vision_module_lenient(vision_module) ==
    IF vision_module.type \in {"module", "other"}
    THEN [status |-> "ok", training |-> vision_module.training]
    ELSE LET made == initialize_vision_module(vision_module.name, FALSE)
         IN  IF made.status # "ok" THEN made
             ELSE IF made.arity # 2 THEN [status |-> "ValueError"]
             ELSE [status |-> "ok", training |-> made.training]

\* Sender.init_vision_module and the same lines of Receiver.__init__: the
\* vision module the agent holds, or the exception raised
init_vision_module(vision_module) ==
    IF vision_module.type = "module"
    THEN [status |-> "ok", training |-> vision_module.training]
    ELSE IF vision_module.type = "str"
    THEN LET made == initialize_vision_module(vision_module.name, FALSE)
         IN  IF made.status # "ok" THEN made
             ELSE IF made.arity # 2 THEN [status |-> "ValueError"]
             ELSE [status |-> "ok", training |-> made.training]
    ELSE [status |-> "RuntimeError"]

\* Sender(vision_module, ...) / Receiver(vision_module, ...)
Agent_init ==
    /\ Len(built_agents) < MaxAgents
    /\ \E class \in {"Sender", "Receiver"}, vision_module \in VisionArgs :
          LET vm == init_vision_module(vision_module)
          IN  /\ built_agents' = IF vm.status = "ok"
                           THEN Append(built_agents, [class |-> class, training |-> TRUE,
                                                fc_training |-> TRUE,
                                                vision_training |-> vm.training])
                           ELSE built_agents
              /\ agent_ret' = [op |-> "init", class |-> class, arg |-> vision_module,
                               status |-> vm.status]

\* variant of Sender_train: every child is switched, the vision module too
Sender_train_all(a, mode) ==
    [a EXCEPT !.training = mode, !.fc_training = mode, !.vision_training = mode]

\* Sender.train(mode) for a boolean mode
Sender_train(a, mode) == [a EXCEPT !.training = mode, !.fc_training = mode]

\* Receiver.train(mode) for a boolean mode
Receiver_train(a, mode) == [a EXCEPT !.training = mode, !.fc_training = mode]

\* agent.train(mode), whatever the class of the agent
Agent_train_to(a, mode) ==
    IF a.class = "Sender" THEN Sender_train(a, mode) ELSE Receiver_train(a, mode)

\* agent.train(mode) / agent.eval() on the i-th agent: a mode that is no boolean raises
Agent_train ==
    \E i \in 1..Len(built_agents), mode \in ModeArgs :
        /\ built_agents' = IF mode.bool
                     THEN [built_agents EXCEPT ![i] = Agent_train_to(built_agents[i], mode.val)]
                     ELSE built_agents
        /\ agent_ret' = [op |-> "train", target |-> i, arg |-> mode,
                         status |-> IF mode.bool THEN "ok" ELSE "ValueError"]
        /\ UNCHANGED training

\* train(mode) / eval() on the AgentSampler that holds the built_agents: nn.Module.train
\* sets its own flag and calls train(mode) on every child
Population_train ==
    /\ built_agents # << >>
    /\ \E mode \in BOOLEAN :
        /\ training' = mode
        /\ built_agents' = [i \in 1..Len(built_agents) |-> Agent_train_to(built_agents[i], mode)]
        /\ agent_ret' = [op |-> "train", target |-> 0, arg |-> [bool |-> TRUE, val |-> mode],
                         status |-> "ok"]

\* no agent is ever constructed
AgentsIdle == built_agents = << >> /\ agent_ret = [op |-> "none", status |-> "none"]

\* ---- ProximitySampler (proximity_sampler.py) ----------------------------

\* largest number of rows of a similarity matrix
MaxN == 3

\* largest batch size
MaxBatch == 3

\* similarity values: two values, so that a row can hold ties
SimValues == {0, 1}

\* the cosine-similarity matrices of n points: symmetric, 1 on the diagonal
Matrices(n) ==
    {mtx \in [1..n -> [1..n -> SimValues]] :
        \A i, j \in 1..n : mtx[i][i] = 1 /\ mtx[i][j] = mtx[j][i]}

\* the idxs argument of the constructor: None, or a list of row numbers
IdxsArgs(n) == {None} \cup {ix \in {<< 0 >>, << 1, 0 >>} : \A k \in 1..Len(ix) : ix[k] < n}

\* cos_sim_matrix[idxs][:, idxs]
Restrict(mtx, idxs) ==
    [i \in 1..Len(idxs) |-> [j \in 1..Len(idxs) |-> mtx[idxs[i] + 1][idxs[j] + 1]]]

ProximitySampler_init(mtx, b, idxs) ==
    /\ cos_sim_matrix = (IF idxs = None THEN mtx ELSE Restrict(mtx, idxs))
    /\ batch_size = b
    /\ prox_ret = [op |-> "init"]

\* torch.argsort(row, 0, descending=True): a list of the positions 0..n-1 by
\* descending value; the order among equal values is not specified
ArgSorts(row) ==
    {p \in [1..Len(row) -> 0..(Len(row) - 1)] :
        /\ \A a, b \in 1..Len(row) : a # b => p[a] # p[b]
        /\ \A a \in 1..(Len(row) - 1) : row[p[a] + 1] >= row[p[a + 1] + 1]}

\* the Python slice s[a:b], clipped at the end of s
Slice(s, a, b) == SubSeq(s, a + 1, IF b < Len(s) THEN b ELSE Len(s))

\* one pass of the loop: the slice [1 : batch_size + 1] of the sort of the row
\* of a reference point drawn by torch.randint
NearestOf(p) == Slice(p, 1, batch_size + 1)

Passes ==
    UNION {{NearestOf(p) : p \in ArgSorts(cos_sim_matrix[ref_idx + 1])} :
              ref_idx \in 0..(Len(cos_sim_matrix) - 1)}

\* the lists of passes that range(len(cos_sim_matrix) // batch_size) can build
RECURSIVE IterRuns(_)
IterRuns(k) ==
    IF k = 0 THEN {<< >>}
    ELSE {pre \o << run >> : pre \in IterRuns(k - 1), run \in Passes}

\* torch.cat of the passes
RECURSIVE Cat(_)
Cat(runs) == IF runs = << >> THEN << >> ELSE Head(runs) \o Cat(Tail(runs))

\* ProximitySampler.__len__
Proximity_len == (Len(cos_sim_matrix) \div batch_size) * batch_size

\* ProximitySampler.__iter__, consumed to its end
ProximitySampler_iter ==
    /\ \E runs \in IterRuns(Len(cos_sim_matrix) \div batch_size) :
          prox_ret' = [op |-> "iter", runs |-> runs, yielded |-> Cat(runs)]
    /\ UNCHANGED << cos_sim_matrix, batch_size >>

\* len(sampler)
ProximitySampler_len ==
    /\ prox_ret' = [op |-> "len", value |-> Proximity_len]
    /\ UNCHANGED << cos_sim_matrix, batch_size >>

\* a ProximitySampler that is never used
ProxIdle == ProximitySampler_init(<< << 1 >> >>, 1, None)

\* ---- specifications -------------------------------------------------------

\* the sampler alone, for every choice of the three pools
Init ==
    /\ \E ns \in 0..MaxSenders, nr \in 0..MaxReceivers, nl \in 0..MaxLosses :
          AgentSampler_init(ns, nr, nl)
    /\ GameIdle
    /\ PopIdle
    /\ AgentsIdle
    /\ ProxIdle

Next ==
    \/ avoid_training_old /\ UNCHANGED << gameVars, popVars, agentVars, proxVars >>
    \/ add_senders /\ UNCHANGED << gameVars, popVars, agentVars, proxVars >>
    \/ add_receivers /\ UNCHANGED << gameVars, popVars, agentVars, proxVars >>
    \/ forward /\ UNCHANGED << gameVars, popVars, agentVars, proxVars >>
    \/ set_mode /\ UNCHANGED << gameVars, popVars, agentVars, proxVars >>

Spec == Init /\ [][Next]_vars

\* the Game alone: without baseline (with and without noise channel), and in
\* policy-gradient mode with each baseline and entropy coefficient
GameInit ==
    /\ SamplerIdle
    /\ PopIdle
    /\ AgentsIdle
    /\ ProxIdle
    /\ \E kind \in {"none", "no", "mean"}, noise \in BOOLEAN, coeff \in EntropyCoeffs :
          /\ kind = "none" => coeff = 1
          /\ kind # "none" => ~noise
          /\ Game_init(kind, noise, coeff)

GameNext ==
    \/ Game_forward /\ UNCHANGED << samplerVars, popVars, agentVars, proxVars >>
    \/ Game_set_mode /\ UNCHANGED << samplerVars, popVars, agentVars, proxVars >>

SpecGame == GameInit /\ [][GameNext]_vars

\* the PopulationGame over a population of three senders and one receiver,
\* with each auxiliary-loss variant that keeps no record, and with the
\* recording variants switched off by a weight of 0
PopInit ==
    /\ PopSampler
    /\ GameIdle
    /\ AgentsIdle
    /\ ProxIdle
    /\ \E variant \in {"None", "random", "chosen", "random_kl", "best", "best_averaged"},
          weight \in {0, 1} :
          /\ variant \in {"best", "best_averaged"} => weight = 0
          /\ variant = "None" => weight = 0
          /\ PopulationGame_init("cuda", variant, weight)
    /\ caller_keeps_aux = TRUE

PopNext ==
    \/ PopulationGame_forward /\ UNCHANGED << agentVars, proxVars >>
    \/ PopulationGame_set_mode /\ UNCHANGED << agentVars, proxVars >>

SpecPop == PopInit /\ [][PopNext]_vars

\* the PopulationGame with the recording variants at a positive weight
TrackInit ==
    /\ PopSampler
    /\ GameIdle
    /\ AgentsIdle
    /\ ProxIdle
    /\ \E variant \in {"best", "best_averaged"} : PopulationGame_init("cuda", variant, 1)
    /\ caller_keeps_aux = FALSE

TrackNext ==
    \/ PopulationGame_forward /\ UNCHANGED << agentVars, proxVars >>
    \/ PopulationGame_set_mode /\ UNCHANGED << agentVars, proxVars >>

SpecTrack == TrackInit /\ [][TrackNext]_vars

\* the PopulationGame under the force-move device policy
DeviceInit ==
    /\ PopSampler
    /\ GameIdle
    /\ AgentsIdle
    /\ ProxIdle
    /\ \E variant \in {"None", "random", "chosen"} :
          PopulationGame_init("cuda", variant, 1)
    /\ caller_keeps_aux = FALSE

DeviceNext ==
    \/ PopulationGame_forward /\ UNCHANGED << agentVars, proxVars >>
    \/ force_set_device /\ UNCHANGED << samplerVars, gameVars, agentVars, proxVars >>

SpecDevice == DeviceInit /\ [][DeviceNext]_vars

\* the PopulationGame over a population that starts with at most one sender
\* and grows, for a variant that reads a fixed index and one that keeps a table
GrowInit ==
    /\ \E ns \in 0..1 : AgentSampler_init(ns, 1, 1)
    /\ GameIdle
    /\ AgentsIdle
    /\ ProxIdle
    /\ \E variant \in {"chosen", "best_averaged"} : PopulationGame_init("cuda", variant, 1)
    /\ caller_keeps_aux = FALSE

GrowNext ==
    \/ add_senders /\ UNCHANGED << gameVars, popVars, agentVars, proxVars >>
    \/ PopulationGame_forward /\ UNCHANGED << agentVars, proxVars >>

SpecGrow == GrowInit /\ [][GrowNext]_vars

\* the PopulationGame over a Game in policy-gradient mode with the running-mean
\* baseline
PlayInit ==
    /\ AgentSampler_init(2, 1, 1)
    /\ Game_init("mean", FALSE, 1)
    /\ AgentsIdle
    /\ ProxIdle
    /\ PopulationGame_init("cuda", "None", 0)
    /\ caller_keeps_aux = FALSE

PlayNext ==
    \/ PopulationGame_forward /\ UNCHANGED << agentVars, proxVars >>
    \/ PopulationGame_set_mode /\ UNCHANGED << agentVars, proxVars >>

SpecPlay == PlayInit /\ [][PlayNext]_vars

\* Sender and Receiver agents on their own, and under the mode switches of the
\* sampler that holds them
AgentInit ==
    /\ SamplerIdle
    /\ GameIdle
    /\ PopIdle
    /\ AgentsIdle
    /\ ProxIdle

AgentNext ==
    \/ Agent_init /\ UNCHANGED << samplerVars, gameVars, popVars, proxVars >>
    \/ Agent_train /\ UNCHANGED << samplerVars, gameVars, popVars, proxVars >>
    \/ /\ Population_train
       /\ UNCHANGED << senders, receivers, losses, sender_lock_idx, receiver_lock_idx,
                       senders_order, receivers_order, iterator, available_indexes,
                       ret, evalLog, frozenSinceReset, gameVars, popVars, proxVars >>

SpecAgent == AgentInit /\ [][AgentNext]_vars

\* the ProximitySampler over each similarity matrix of up to MaxN points and
\* each batch size up to MaxBatch
ProxInit ==
    /\ SamplerIdle
    /\ GameIdle
    /\ PopIdle
    /\ AgentsIdle
    /\ \E n \in 1..MaxN, b \in 1..MaxBatch :
          \E mtx \in Matrices(n), idxs \in IdxsArgs(n) :
              ProximitySampler_init(mtx, b, idxs)

ProxNext ==
    \/ ProximitySampler_iter /\ UNCHANGED << samplerVars, gameVars, popVars, agentVars >>
    \/ ProximitySampler_len /\ UNCHANGED << samplerVars, gameVars, popVars, agentVars >>

SpecProximity == ProxInit /\ [][ProxNext]_vars

\* ---- vocabulary of the properties ---------------------------------------

\* the set of items of a list
ToSet(s) == {s[i] : i \in 1..Len(s)}

SenderIdxs == 0..(Len(senders) - 1)
ReceiverIdxs == 0..(Len(receivers) - 1)
LossIdxs == 0..(Len(losses) - 1)

\* every (sender, receiver, loss) index triple of the current pools
FullProduct == {<<s, r, l>> : s \in SenderIdxs, r \in ReceiverIdxs, l \in LossIdxs}

\* the pairing rule applied to the current pools and lock indices:
\* all senders x new receivers, and new senders x old receivers
RuleUniverse ==
    {t \in FullProduct : t[2] >= receiver_lock_idx}
        \cup {t \in FullProduct : t[1] >= sender_lock_idx /\ t[2] < receiver_lock_idx}

\* a triple pairing an old sender with an old receiver
OldOld(t) == t[1] < sender_lock_idx /\ t[2] < receiver_lock_idx

PoolsNonEmpty == senders # << >> /\ receivers # << >> /\ losses # << >>

JustAdded(r) == r.op \in {"add_senders", "add_receivers"}

\* the most recent call was forward, made in evaluation / training mode
\* (forward leaves the mode flag alone and every mode switch overwrites ret)
EvalCall == ret.op = "forward" /\ ~training
TrainCall == ret.op = "forward" /\ training

\* ---- C1 -----------------------------------------------------------------
\* C1: in evaluation mode, counted from the last cursor reset (construction or
\* add_*), the first |U| calls return pairwise distinct triples of the stored
\* universe U, after |U| calls every triple of U has been returned, call |U|+1
\* returns what call 1 returned, and a call on a non-empty universe never fails.
C1_FullSweepThenWrap ==
    LET n == Len(available_indexes) IN
    /\ \A i \in 1..Len(evalLog) :
          i <= n => /\ evalLog[i] \in ToSet(available_indexes)
                    /\ \A j \in 1..(i - 1) : evalLog[j] # evalLog[i]
    /\ Len(evalLog) >= n => {evalLog[i] : i \in 1..n} = ToSet(available_indexes)
    /\ Len(evalLog) > n => evalLog[n + 1] = evalLog[1]
    /\ (EvalCall /\ ret.status = "error") => n = 0

\* 2 senders, 2 receivers, 1 loss, no freeze: 4 distinct triples, the 5th is the 1st
C1_Witness ==
    /\ Len(senders) = 2 /\ Len(receivers) = 2 /\ Len(losses) = 1
    /\ sender_lock_idx = 0 /\ receiver_lock_idx = 0
    /\ Len(evalLog) = 5
    /\ Cardinality({evalLog[i] : i \in 1..4}) = 4
    /\ evalLog[5] = evalLog[1]
    /\ EvalCall /\ ret.idxs = evalLog[5]

\* ---- C2 -----------------------------------------------------------------
\* C2: between avoid_training_old and the next add_* call, forward returns no
\* triple, in training mode and in evaluation mode.
C2_NoSamplingAfterFreeze ==
    (frozenSinceReset /\ ret.op = "forward") => ret.status # "ok"

\* ---- C3 -----------------------------------------------------------------
\* C3: once add_* has been called after the last avoid_training_old, the stored
\* universe holds no old-sender/old-receiver triple and forward returns none;
\* with 2 old senders, 2 old receivers and 1 added sender it holds (2,0,*) and
\* (2,1,*) and not (0,0,*).
C3_NoOldOldPairs ==
    ~frozenSinceReset =>
        /\ \A t \in ToSet(available_indexes) : ~OldOld(t)
        /\ (ret.op = "forward" /\ ret.status = "ok") => ~OldOld(ret.idxs)
        /\ (/\ Len(senders) = 3 /\ Len(receivers) = 2
            /\ sender_lock_idx = 2 /\ receiver_lock_idx = 2)
           => \A l \in LossIdxs :
                 /\ <<2, 0, l>> \in ToSet(available_indexes)
                 /\ <<2, 1, l>> \in ToSet(available_indexes)
                 /\ <<0, 0, l>> \notin ToSet(available_indexes)

\* the new sender has been drawn against an old receiver after freeze + add
C3_Witness ==
    /\ ~frozenSinceReset
    /\ Len(senders) = 3 /\ Len(receivers) = 2 /\ Len(losses) = 1
    /\ sender_lock_idx = 2 /\ receiver_lock_idx = 2
    /\ ret.op = "forward" /\ ret.status = "ok" /\ ret.idxs = <<2, 1, 0>>

\* ---- C4 -----------------------------------------------------------------
\* C4: right after add_senders or add_receivers the stored universe is, as a
\* set, the pairing rule applied to the pools and lock indices of that moment,
\* and lists each of its triples once.
C4_UniverseIsRule ==
    JustAdded(ret) =>
        /\ ToSet(available_indexes) = RuleUniverse
        /\ Len(available_indexes) = Cardinality(RuleUniverse)

\* an add after a freeze that left old agents on both sides and a new sender
C4_Witness ==
    /\ JustAdded(ret)
    /\ 0 < sender_lock_idx /\ sender_lock_idx < Len(senders)
    /\ 0 < receiver_lock_idx
    /\ available_indexes # << >>
    /\ ToSet(available_indexes) # FullProduct

\* ---- C5 -----------------------------------------------------------------
\* C5: with both lock indices 0 (no freeze has moved them) and non-empty pools,
\* the stored universe lists every triple of the full product once, a
\* training-mode forward returns a triple of the product, and in training mode
\* every triple of the product is a possible result of the next draw.
C5_FullProductDraw ==
    (sender_lock_idx = 0 /\ receiver_lock_idx = 0 /\ PoolsNonEmpty) =>
        /\ ToSet(available_indexes) = FullProduct
        /\ Len(available_indexes) = Len(senders) * Len(receivers) * Len(losses)
        /\ TrainCall => (ret.status = "ok" /\ ret.idxs \in FullProduct)
        /\ training => \A t \in FullProduct : ENABLED (forward_training /\ ret'.idxs = t)

\* the last triple of a 3 x 2 x 1 product drawn in training mode
C5_Witness ==
    /\ sender_lock_idx = 0 /\ receiver_lock_idx = 0
    /\ Len(senders) = 3 /\ Len(receivers) = 2 /\ Len(losses) = 1
    /\ TrainCall /\ ret.status = "ok" /\ ret.idxs = <<2, 1, 0>>

\* ---- C6 -----------------------------------------------------------------
\* C6: add_senders([]) leaves the stored universe, the pools, the lock indices
\* and the mode as they were and puts the cursor at the start of that universe.
C6_EmptyAddKeepsUniverse ==
    [][(ret'.op = "add_senders" /\ senders' = senders) =>
          /\ available_indexes' = available_indexes
          /\ iterator' = Iter(available_indexes)
          /\ UNCHANGED << receivers, losses, sender_lock_idx, receiver_lock_idx, training >>]_vars

\* ---- C7 -----------------------------------------------------------------
\* C7: an add_* call stores the recomputed universe and a cursor at its start,
\* and the first evaluation-mode forward since the last reset returns the first
\* triple of the stored universe.
C7_AddResetsCursor ==
    [][/\ JustAdded(ret') =>
             /\ available_indexes' = reset_order(senders', receivers', losses',
                                                 sender_lock_idx', receiver_lock_idx')
             /\ iterator' = Iter(available_indexes')
       /\ (ret'.op = "forward" /\ ~training /\ evalLog = << >> /\ available_indexes # << >>) =>
             /\ ret'.status = "ok"
             /\ ret'.idxs = available_indexes[1]]_vars

\* the first evaluation-mode call after an add_senders and an add_receivers
C7_Witness ==
    /\ senders_order.defined /\ receivers_order.defined
    /\ EvalCall /\ ret.status = "ok"
    /\ Len(evalLog) = 1
    /\ Len(available_indexes) > 1
    /\ ret.idxs = available_indexes[1]

C9_LockWithinPool ==
    /\ sender_lock_idx <= Len(senders)
    /\ receiver_lock_idx <= Len(receivers)

\* a frozen frontier strictly inside one pool and at the end of the other
C9_Witness ==
    /\ 0 < sender_lock_idx /\ sender_lock_idx < Len(senders)
    /\ 0 < receiver_lock_idx /\ receiver_lock_idx = Len(receivers)

\* ---- C10 ----------------------------------------------------------------
\* C10: forward called while a pool is empty ends in an error and returns no
\* triple, in training mode and in evaluation mode.
C10_EmptyPoolFails ==
    (ret.op = "forward" /\ ~PoolsNonEmpty) =>
        (ret.status = "error" /\ ret.idxs = << >> /\ ret.agents = << >>)

\* an evaluation-mode call failed with senders and losses registered but no receiver
C10_Witness ==
    /\ EvalCall /\ ret.status = "error"
    /\ senders # << >> /\ losses # << >> /\ receivers = << >>

\* ---- C15 ----------------------------------------------------------------
\* C15: the baseline object of the Game changes only in a Game.forward call made
\* in training mode; a call made in evaluation mode leaves it as it was, and a
\* training-mode call of a running-mean baseline adds exactly one point.
C15_BaselineOnlyInTraining ==
    [][/\ baseline' # baseline =>
             (game_training /\ game_ret'.op = "forward" /\ game_ret'.status = "ok")
       /\ (game_ret'.op = "forward" /\ ~game_training) => baseline' = baseline
       /\ (/\ game_ret'.op = "forward" /\ game_ret'.status = "ok"
           /\ game_training /\ baseline.kind = "mean")
          => baseline'.n_points = baseline.n_points + 1]_vars

\* an evaluation-mode call made after a training-mode call moved the running
\* mean, which it left where it was
C15_Witness ==
    /\ baseline.kind = "mean" /\ baseline.n_points = 1 /\ baseline.mean_baseline > 0
    /\ ~game_training
    /\ game_ret.op = "forward" /\ game_ret.status = "ok"
    /\ ~game_ret.mode /\ game_ret.before = baseline

C17_NoBaselineSurrogate ==
    (game_ret.op = "forward" /\ game_ret.status = "ok" /\ baseline.kind = "no") =>
        LET in == game_ret.in
            direct == [e \in Examples |->
                          (Sum([x \in Examples |-> in.loss[x] * in.log_probs[x]])
                               \div Cardinality(Examples))
                          - sender_entropy_coeff.val * in.entropy[e]]
        IN  /\ game_ret.optimized_loss = direct
            /\ game_ret.mean_loss = Mean([e \in Examples |-> in.loss[e] + direct[e]])

\* a call whose losses, log-probabilities and entropies differ between examples
C17_Witness ==
    /\ game_ret.op = "forward" /\ game_ret.status = "ok" /\ baseline.kind = "no"
    /\ game_ret.in.loss[1] # game_ret.in.loss[2]
    /\ game_ret.in.log_probs[1] # game_ret.in.log_probs[2]
    /\ game_ret.in.entropy[1] # game_ret.in.entropy[2]
    /\ sender_entropy_coeff.val = 2

\* ---- vocabulary of the PopulationGame properties --------------------------

\* a PopulationGame.forward call has just been made / has just returned
PopCall == pop_ret.op = "forward"
PopReturned == pop_ret.op = "forward" /\ pop_ret.status = "ok"

\* the lowest loss among the recorded calls h, and the sender of the earliest
\* call that had it
LowestLoss(h) ==
    CHOOSE m \in {h[k].loss : k \in 1..Len(h)} : \A k \in 1..Len(h) : m <= h[k].loss
EarliestLowest(h) ==
    h[CHOOSE k \in 1..Len(h) :
          /\ h[k].loss = LowestLoss(h)
          /\ \A j \in 1..(k - 1) : h[j].loss > LowestLoss(h)].sender

\* the losses recorded for sender index i, in order
RECURSIVE LossesOf(_, _)
LossesOf(h, i) ==
    IF h = << >> THEN << >>
    ELSE IF h[1].sender = i THEN << h[1].loss >> \o LossesOf(Tail(h), i)
    ELSE LossesOf(Tail(h), i)

\* ---- C11 ----------------------------------------------------------------
\* C11: a PopulationGame.forward call invokes the sampler exactly once, whatever
\* the auxiliary-loss variant and weight.
C11_OneSamplePerForward == PopCall => pop_ret.sampler_calls = 1

\* ---- C12 ----------------------------------------------------------------
\* C12: with the variant best, after every call best_sender_idx is the sender
\* of the earliest call among those with the lowest loss so far, and best_loss
\* is that loss.
C12_BestIsEarliestLowest ==
    (aux_loss = "best" /\ calls # << >>) =>
        /\ best_sender_idx = Attr(IdxTensor(EarliestLowest(calls)))
        /\ best_loss = Attr(LowestLoss(calls))

\* the scenario of the three calls: 5 by sender 0, 3 by sender 1, 4 by sender 2
C12_Witness ==
    /\ aux_loss = "best"
    /\ calls = << [sender |-> 0, loss |-> 5], [sender |-> 1, loss |-> 3],
                  [sender |-> 2, loss |-> 4] >>
    /\ best_sender_idx = Attr(IdxTensor(1))
    /\ PopReturned /\ pop_ret.aux_sender = IdxTensor(1)

\* ---- C13 ----------------------------------------------------------------
\* C13: with the variant best_averaged, the counter of every sender index is
\* the number of calls recorded for it, the tracked value of an index with
\* recorded calls is their average, and the auxiliary sender of a call is the
\* first index with the least tracked value.
C13_RunningAverage ==
    aux_loss = "best_averaged" =>
        /\ \A i \in 1..Len(senders) :
              LET seen == LossesOf(calls, i - 1)
              IN  /\ n_elemets.val[i] = Len(seen)
                  /\ seen # << >> => best_loss.val[i] = Fin(Mean(seen))
        /\ (PopReturned /\ pop_ret.aux_ran) =>
              pop_ret.aux_sender = IdxTensor(ArgMin(best_loss.val))

\* ---- C14 ----------------------------------------------------------------
\* C14: a PopulationGame.forward call made with aux_loss_weight = 0 selects no
\* auxiliary sender, leaves best_loss, best_sender_idx and n_elemets as they
\* were, calls the sampler once (in evaluation mode the cursor moves by one
\* position), and returns the mean loss of the Game.
C14_ZeroWeightSkipsAux ==
    [][(pop_ret'.op = "forward" /\ aux_loss_weight = 0) =>
          /\ ~pop_ret'.aux_ran
          /\ pop_ret'.aux_sender = None
          /\ UNCHANGED << best_loss, best_sender_idx, n_elemets, calls >>
          /\ pop_ret'.sampler_calls = 1
          /\ (~training /\ ~Exhausted(iterator)) => iterator' = Advance(iterator)
          /\ pop_ret'.status = "ok" => pop_ret'.mean_loss = game_ret'.mean_loss]_vars

\* a call that returned under the variant best with weight 0
C14_Witness ==
    /\ aux_loss = "best" /\ aux_loss_weight = 0
    /\ PopReturned /\ ~training
    /\ best_sender_idx = Attr(None) /\ best_loss = Attr(Int63Max)

\* ---- C18 ----------------------------------------------------------------
\* C18: under the force-move policy no agent that a PopulationGame.forward call
\* moved to the accelerator is still there after the call.
C18_ReleasedAfterCall ==
    (PopCall /\ force_gpu_use) => pop_ret.moved \cap on_device = {}

C20_BadVisionModuleFails ==
    [][agent_ret'.op = "init" =>
          /\ (agent_ret'.arg.type = "str" /\ agent_ret'.arg.name \notin KnownNames) =>
                (agent_ret'.status = "KeyError" /\ built_agents' = built_agents)
          /\ agent_ret'.arg.type = "other" =>
                (agent_ret'.status = "RuntimeError" /\ built_agents' = built_agents)]_vars

\* a Receiver constructor that was handed neither a module nor a string, after
\* an agent had been built
C20_Witness ==
    /\ agent_ret.op = "init" /\ agent_ret.class = "Receiver"
    /\ agent_ret.arg.type = "other" /\ agent_ret.status = "RuntimeError"
    /\ Len(built_agents) = 1

\* ---- C22 ----------------------------------------------------------------
\* C22: add_senders leaves the lock indices, the receivers and the losses as
\* they were and keeps every sender at its index, the new ones coming after;
\* add_receivers does the same with senders and receivers exchanged.
C22_AddOnlyAppends ==
    [][/\ ret'.op = "add_senders" =>
             /\ UNCHANGED << sender_lock_idx, receiver_lock_idx, receivers, losses >>
             /\ Len(senders') >= Len(senders)
             /\ SubSeq(senders', 1, Len(senders)) = senders
       /\ ret'.op = "add_receivers" =>
             /\ UNCHANGED << sender_lock_idx, receiver_lock_idx, senders, losses >>
             /\ Len(receivers') >= Len(receivers)
             /\ SubSeq(receivers', 1, Len(receivers)) = receivers]_vars

\* two senders added to a pool of one frozen sender
C22_Witness ==
    /\ ret.op = "add_senders"
    /\ sender_lock_idx = 1 /\ receiver_lock_idx = 1
    /\ senders = NewAgents(0, 3) /\ Len(receivers) = 1

\* ---- C23 ----------------------------------------------------------------
\* C23: Game.forward invokes the Sender, then the noise channel if there is
\* one, then the Receiver, then the Loss; the Receiver and the Loss are handed
\* the message as the noise channel left it, and that message is the one
\* returned.
C23_CorruptedMessageDownstream ==
    (game_ret.op = "forward" /\ game_ret.status = "ok") =>
        LET sent == IF noisy THEN add_noise(game_ret.in.message, game_ret.in.flip)
                    ELSE game_ret.in.message
        IN  /\ game_ret.invoked = IF noisy
                                  THEN << "sender", "noise", "receiver", "loss" >>
                                  ELSE << "sender", "receiver", "loss" >>
            /\ game_ret.receiver_message = sent
            /\ game_ret.loss_message = sent
            /\ game_ret.message = sent

\* a call in which the noise channel changed the message of the Sender
C23_Witness ==
    /\ game_ret.op = "forward" /\ game_ret.status = "ok" /\ noisy
    /\ game_ret.in.flip = 1
    /\ game_ret.receiver_message # game_ret.in.message

\* ---- C21 ----------------------------------------------------------------
\* C21: with the variant chosen, every call that reaches the auxiliary loss
\* uses the sender at index chosen_sender_idx, and the pool has a sender at
\* that index.
C21_ChosenSenderExists ==
    (aux_loss = "chosen" /\ PopCall /\ pop_ret.aux_ran) =>
        /\ chosen_sender_idx < Len(senders)
        /\ pop_ret.aux_sender = IdxTensor(chosen_sender_idx)

\* ---- C24 ----------------------------------------------------------------
\* C24: a PopulationGame.forward call on an empty universe raises without
\* invoking the Game; on a universe that is not empty the Game is invoked with
\* the sender, receiver and loss at the indices the sampler returned, which
\* form a triple of the universe.
C24_SamplingGatesTheGame ==
    [][ret'.op = "forward" =>
          IF available_indexes = << >>
          THEN /\ pop_ret'.status = "error" /\ pop_ret'.raised_by = "sampler"
               /\ UNCHANGED << game_ret, baseline >>
          ELSE /\ \E k \in 1..Len(available_indexes) :
                     pop_ret'.idxs = available_indexes[k]
               /\ game_ret'.op = "forward"
               /\ game_ret'.players = << senders[pop_ret'.idxs[1] + 1],
                                         receivers[pop_ret'.idxs[2] + 1],
                                         losses[pop_ret'.idxs[3] + 1] >>]_vars

\* a call played by the third sender of a population that has grown
C24_Witness ==
    /\ PopCall /\ ret.op = "forward" /\ Len(senders) = 3
    /\ pop_ret.idxs = << 2, 0, 0 >>
    /\ game_ret.op = "forward" /\ game_ret.players[1] = senders[3]

\* ---- C25 ----------------------------------------------------------------
\* C25: when the Loss raises, Game.forward and PopulationGame.forward raise:
\* neither returns a loss, the sampler and the Loss were called once, and the
\* baseline of the Game is as it was before the call.
C25_LossErrorPropagates ==
    [][(pop_ret'.op = "forward" /\ game_ret'.op = "forward"
            /\ game_ret'.in.fail = "loss") =>
          /\ game_ret'.status = "error" /\ game_ret'.raised_by = "loss"
          /\ "mean_loss" \notin DOMAIN game_ret'
          /\ game_ret'.invoked = << "sender", "receiver", "loss" >>
          /\ pop_ret'.status = "error" /\ pop_ret'.raised_by = "game"
          /\ "mean_loss" \notin DOMAIN pop_ret'
          /\ pop_ret'.sampler_calls = 1
          /\ baseline' = baseline]_vars

\* the Loss raised in training mode while the running mean held one point
C25_Witness ==
    /\ PopCall /\ pop_ret.status = "error" /\ pop_ret.raised_by = "game"
    /\ game_ret.op = "forward" /\ game_ret.raised_by = "loss" /\ game_ret.mode
    /\ baseline.kind = "mean" /\ baseline.n_points = 1 /\ baseline.mean_baseline > 0

\* ---- C26 ----------------------------------------------------------------
\* C26: the aux dict a PopulationGame.forward call hands to the Game has the
\* entries sender_idx, recv_idx and loss_idx of the triple sampled in that call
\* and no other entry, whatever the caller passed.
C26_FreshAuxInput ==
    (PopCall /\ pop_ret.aux_input.mapping) =>
        pop_ret.aux_input.entries =
            [sender_idx |-> IdxTensor(pop_ret.idxs[1]),
             recv_idx |-> IdxTensor(pop_ret.idxs[2]),
             loss_idx |-> IdxTensor(pop_ret.idxs[3])]

\* the caller passed the dict of an earlier call, which held aux_sender_idx
C26_Witness ==
    /\ PopReturned /\ pop_ret.stale /\ pop_ret.aux_input.mapping
    /\ pop_ret.aux_ran
    /\ "aux_sender_idx" \in DOMAIN pop_ret.aux_after.entries

\* ---- C27 ----------------------------------------------------------------
\* C27: when the Game raises in an evaluation-mode PopulationGame.forward call,
\* the iterator has consumed the triple of that call and stays there.
C27_CursorKeptOnGameError ==
    [][(pop_ret'.op = "forward" /\ pop_ret'.status = "error"
            /\ pop_ret'.raised_by = "game" /\ ~training) =>
          LET it == IF Exhausted(iterator) THEN Iter(available_indexes) ELSE iterator
          IN  /\ pop_ret'.idxs = NextItem(it)
              /\ iterator' = Advance(it)]_vars

\* the Game raised on the second triple of a sweep
C27_Witness ==
    /\ PopCall /\ pop_ret.status = "error" /\ pop_ret.raised_by = "game"
    /\ ~training /\ iterator.pos = 2
    /\ pop_ret.idxs = available_indexes[2]

\* ---- C28 ----------------------------------------------------------------
\* C28: with the variant best, a call that reaches the auxiliary loss lowers
\* best_loss to the loss of the call if that is lower, and then records the
\* sender of the call, in evaluation mode as in training mode; best_loss never
\* increases.
C28_BestUpdatedInBothModes ==
    [][aux_loss = "best" =>
          /\ best_loss'.val <= best_loss.val
          /\ (pop_ret'.op = "forward" /\ pop_ret'.aux_ran) =>
                IF game_ret'.mean_loss < best_loss.val
                THEN /\ best_loss' = Attr(game_ret'.mean_loss)
                     /\ best_sender_idx' = Attr(IdxTensor(pop_ret'.idxs[1]))
                ELSE UNCHANGED << best_loss, best_sender_idx >>]_vars

\* an evaluation-mode call replaced the record of an earlier call
C28_Witness ==
    /\ aux_loss = "best" /\ ~training /\ PopReturned /\ ~game_ret.mode
    /\ Len(calls) = 2 /\ calls[2].loss < calls[1].loss
    /\ calls[2].sender # calls[1].sender
    /\ best_sender_idx = Attr(IdxTensor(calls[2].sender))

\* ---- C29 ----------------------------------------------------------------
\* C29: with the variant best_averaged, best_loss and n_elemets have one entry
\* per sender registered at construction and keep that length; a call played by
\* a sender beyond it raises in the auxiliary loss and leaves both as they were.
C29_TableNotExtended ==
    /\ aux_loss = "best_averaged" =>
          (Len(best_loss.val) = Len(senders) /\ Len(n_elemets.val) = Len(senders))
    /\ [][aux_loss = "best_averaged" =>
             /\ Len(best_loss'.val) = Len(best_loss.val)
             /\ Len(n_elemets'.val) = Len(n_elemets.val)
             /\ (ret'.op = "forward" /\ pop_ret'.idxs # << >>
                     /\ game_ret'.status = "ok"
                     /\ pop_ret'.idxs[1] >= Len(best_loss.val)) =>
                   /\ pop_ret'.status = "error" /\ pop_ret'.raised_by = "aux_loss"
                   /\ UNCHANGED << best_loss, n_elemets >>]_vars

\* a call played by the third sender against a table of one entry
C29_Witness ==
    /\ aux_loss = "best_averaged" /\ Len(senders) = 3 /\ Len(best_loss.val) = 1
    /\ PopCall /\ pop_ret.status = "error" /\ pop_ret.raised_by = "aux_loss"
    /\ pop_ret.idxs[1] = 2

\* ---- C30 ----------------------------------------------------------------
\* C30: one iteration of the ProximitySampler yields __len__() indices, each a
\* row number of the matrix, in len(matrix) // batch_size runs of batch_size
\* indices, each run the ranks 1..batch_size of a sort of one row.
C30_IterYieldsLen ==
    prox_ret.op = "iter" =>
        /\ Len(prox_ret.yielded) = Proximity_len
        /\ \A k \in 1..Len(prox_ret.yielded) :
              prox_ret.yielded[k] \in 0..(Len(cos_sim_matrix) - 1)
        /\ Len(prox_ret.runs) = Len(cos_sim_matrix) \div batch_size
        /\ \A k \in 1..Len(prox_ret.runs) :
              \E r \in 1..Len(cos_sim_matrix) : \E p \in ArgSorts(cos_sim_matrix[r]) :
                  prox_ret.runs[k] = [a \in 1..batch_size |-> p[a + 1]]

====
